---- MODULE Spec2Model ----
(***************************************************************************)
(* Model of scripts/generate-sequence-diagrams.py: the converter that      *)
(* turns a Structurizr workspace (elements, relationships, dynamic views)  *)
(* into PlantUML sequence-diagram documents.                               *)
(*                                                                         *)
(* Strings are sequences of one-character strings, so that                 *)
(* key.endswith("-Sequence"), label[0].islower() and int(order) are        *)
(* computed character by character as Python computes them.  A JSON object *)
(* is a record that holds exactly the fields the document gives it; a      *)
(* missing key is a field that is not in DOMAIN.  The three child-list     *)
(* fields (relationships, containers, components) hold a tagged JSON value *)
(* [t |-> "list", v |-> <<...>>] or [t |-> "null"].                        *)
(***************************************************************************)
EXTENDS Integers, Sequences, FiniteSets, TLC

VARIABLES
    workspace,            \* the parsed JSON document (line 39)
    pc,                   \* position of main()
    element_id_to_name,   \* line 42
    relationship_map,     \* line 49
    vi,                   \* index of `view` in dynamic_views (line 61)
    relationships_in_order, \* line 74
    ri,                   \* index of `rel` in the participant loop (line 78)
    ordered_participants, \* line 71
    seen,                 \* line 72
    files,                \* the output directory: path -> document
    writes                \* history of open(output_path, "w"): <<view index, path>>

vars == <<workspace, pc, element_id_to_name, relationship_map, vi,
          relationships_in_order, ri, ordered_participants, seen, files, writes>>

----------------------------------------------------------------------------
(* Bounds of the input space                                               *)

MaxRefs == 2      \* relationship references per view in the rich-view inputs
MaxViews == 2     \* dynamic views per workspace in the multi-view inputs

----------------------------------------------------------------------------
(* Python primitives                                                       *)

\* dict.get(k, default)
Get(d, k, default) == IF k \in DOMAIN d THEN d[k] ELSE default

\* truthiness of d.get(k) for a string-valued key: present and not ""
Truthy(d, k) == k \in DOMAIN d /\ d[k] # <<>>

\* the empty dict
EmptyMap == [x \in {} |-> <<>>]

\* d[k] = v
Put(d, k, v) == [x \in DOMAIN d \cup {k} |-> IF x = k THEN v ELSE d[x]]

JList(s) == [t |-> "list", v |-> s]
JNull == [t |-> "null"]

\* `for x in d.get(k, [])`: the items iterated, or a TypeError when the value
\* is not iterable (JSON null)
IterRaises(d, k) == k \in DOMAIN d /\ d[k].t # "list"
IterItems(d, k) == IF k \in DOMAIN d /\ d[k].t = "list" THEN d[k].v ELSE <<>>

Digits == <<"0", "1", "2", "3", "4", "5", "6", "7", "8", "9">>
IsDigit(c) == \E i \in 1..10 : Digits[i] = c
DigitVal(c) == (CHOOSE i \in 1..10 : Digits[i] = c) - 1

Lowercase == {"a", "b", "c", "d", "e", "f", "g", "h", "i", "j", "k", "l", "m",
              "n", "o", "p", "q", "r", "s", "t", "u", "v", "w", "x", "y", "z"}
\* str.islower() of one character
IsLower(c) == c \in Lowercase

RECURSIVE StripLeft(_)
StripLeft(s) == IF s # <<>> /\ Head(s) = " " THEN StripLeft(Tail(s)) ELSE s
RECURSIVE StripRight(_)
StripRight(s) ==
    IF s # <<>> /\ s[Len(s)] = " " THEN StripRight(SubSeq(s, 1, Len(s) - 1)) ELSE s

RECURSIVE DigitsValue(_, _)
DigitsValue(s, acc) ==
    IF s = <<>> THEN acc ELSE DigitsValue(Tail(s), acc * 10 + DigitVal(Head(s)))

\* int(s) for a str: surrounding blanks stripped, an optional sign, then one
\* or more decimal digits; anything else raises ValueError
IntBody(s) ==
    LET t == StripRight(StripLeft(s))
    IN  IF t # <<>> /\ Head(t) \in {"-", "+"} THEN Tail(t) ELSE t
IntRaises(s) ==
    LET b == IntBody(s) IN b = <<>> \/ \E i \in 1..Len(b) : ~IsDigit(b[i])
IntValue(s) ==
    LET t == StripRight(StripLeft(s))
        v == DigitsValue(IntBody(s), 0)
    IN  IF t # <<>> /\ Head(t) = "-" THEN -v ELSE v

\* str.endswith
EndsWith(s, suffix) ==
    Len(s) >= Len(suffix) /\ SubSeq(s, Len(s) - Len(suffix) + 1, Len(s)) = suffix

\* str.replace("\n", " ")
FlattenNewlines(s) == [i \in 1..Len(s) |-> IF s[i] = "\n" THEN " " ELSE s[i]]

----------------------------------------------------------------------------
(* Model index (lines 7-27)                                                *)

\* A traversal result: the map so far, and whether an exception was raised.
Ok(m) == [ok |-> TRUE, map |-> m]
Raised == [ok |-> FALSE, map |-> EmptyMap]

RECURSIVE collect_elements_from_element(_, _)
RECURSIVE CollectElementsEach(_, _)
\* `for e in elements: collect_elements_from_element(e, element_map)`
CollectElementsEach(elements, st) ==
    IF ~st.ok \/ elements = <<>> THEN st
    ELSE CollectElementsEach(Tail(elements),
                             collect_elements_from_element(Head(elements), st))

collect_elements_from_element(element, st) ==
    IF ~st.ok THEN st
    ELSE LET own == IF Truthy(element, "id") /\ Truthy(element, "name")
                    THEN Ok(Put(st.map, element.id, element.name))
                    ELSE st
         IN  IF IterRaises(element, "containers") THEN Raised
             ELSE LET afterContainers ==
                          CollectElementsEach(IterItems(element, "containers"), own)
                  IN  IF ~afterContainers.ok THEN afterContainers
                      ELSE IF IterRaises(element, "components") THEN Raised
                      ELSE CollectElementsEach(IterItems(element, "components"),
                                               afterContainers)

RECURSIVE StoreRelationships(_, _)
\* faulty variant: an id already in the map is left alone (first occurrence wins)
StoreRelationshipsKeepFirst(rels, m) ==
    IF rels = <<>> THEN m
    ELSE StoreRelationships(Tail(rels),
                            IF Truthy(Head(rels), "id") /\ Head(rels).id \notin DOMAIN m
                            THEN Put(m, Head(rels).id, Head(rels))
                            ELSE m)

\* lines 19-22: `for rel in ...: if rel_id: relationship_map[rel_id] = rel`
StoreRelationships(rels, m) ==
    IF rels = <<>> THEN m
    ELSE StoreRelationships(Tail(rels),
                            IF Truthy(Head(rels), "id")
                            THEN Put(m, Head(rels).id, Head(rels))
                            ELSE m)

RECURSIVE collect_relationships_from_element(_, _)
RECURSIVE CollectRelationshipsEach(_, _)
CollectRelationshipsEach(elements, st) ==
    IF ~st.ok \/ elements = <<>> THEN st
    ELSE CollectRelationshipsEach(Tail(elements),
                                  collect_relationships_from_element(Head(elements), st))

collect_relationships_from_element(element, st) ==
    IF ~st.ok THEN st
    ELSE IF IterRaises(element, "relationships") THEN Raised
    ELSE LET own == Ok(StoreRelationships(IterItems(element, "relationships"), st.map))
         IN  IF IterRaises(element, "containers") THEN Raised
             ELSE LET afterContainers ==
                          CollectRelationshipsEach(IterItems(element, "containers"), own)
                  IN  IF ~afterContainers.ok THEN afterContainers
                      ELSE IF IterRaises(element, "components") THEN Raised
                      ELSE CollectRelationshipsEach(IterItems(element, "components"),
                                                    afterContainers)

\* lines 42-46
BuildElementIndex(ws) ==
    CollectElementsEach(ws.model.people,
                        CollectElementsEach(ws.model.softwareSystems, Ok(EmptyMap)))

\* lines 49-53
BuildRelationshipIndex(ws) ==
    CollectRelationshipsEach(ws.model.people,
                             CollectRelationshipsEach(ws.model.softwareSystems,
                                                      Ok(EmptyMap)))

----------------------------------------------------------------------------
(* View projector (lines 61-90)                                            *)

SUFFIX == <<"-", "S", "e", "q", "u", "e", "n", "c", "e">>

ViewKey(view) == Get(view, "key", <<>>)                  \* line 62
ViewName(view) == Get(view, "name", ViewKey(view))       \* line 63
Qualifies(view) == EndsWith(ViewKey(view), SUFFIX)       \* line 65
ViewRelationships(view) == Get(view, "relationships", <<>>)  \* line 75

\* line 76: the sort key, int(r.get("order", "0"))
OrderText(r) == Get(r, "order", <<"0">>)
OrderRaises(r) == IntRaises(OrderText(r))
OrderKey(r) == IntValue(OrderText(r))

\* sorted() computes every key first: one bad key raises ValueError
SortRaises(refs) == \E i \in 1..Len(refs) : OrderRaises(refs[i])

RECURSIVE InsertByOrder(_, _)
\* faulty variant: x goes before the elements of equal key (ties reversed)
InsertByOrderBeforeEqual(x, s) ==
    IF s = <<>> THEN <<x>>
    ELSE IF OrderKey(Head(s)) < OrderKey(x)
         THEN <<Head(s)>> \o InsertByOrder(x, Tail(s))
         ELSE <<x>> \o s

\* x goes after every element whose key is <= its own (stable)
InsertByOrder(x, s) ==
    IF s = <<>> THEN <<x>>
    ELSE IF OrderKey(Head(s)) <= OrderKey(x)
         THEN <<Head(s)>> \o InsertByOrder(x, Tail(s))
         ELSE <<x>> \o s

RECURSIVE SortedFrom(_, _)
SortedFrom(refs, acc) ==
    IF refs = <<>> THEN acc
    ELSE SortedFrom(Tail(refs), InsertByOrder(Head(refs), acc))

\* lines 74-77: sorted(..., key=...) is a stable ascending sort
SortedByOrder(refs) == SortedFrom(refs, <<>>)

\* lines 79-84: the reference names a relationship of the map
Resolves(rel, rmap) == Truthy(rel, "id") /\ rel.id \in DOMAIN rmap

\* faulty variant: `if p:` without the `p not in seen` test
AddParticipantNoSeenTest(st, present, p) ==
    IF present
    THEN [seen |-> st.seen \cup {p}, list |-> Append(st.list, p)]
    ELSE st

\* lines 87-90 for one p
AddParticipant(st, present, p) ==
    IF present /\ p \notin st.seen
    THEN [seen |-> st.seen \cup {p}, list |-> Append(st.list, p)]
    ELSE st

\* faulty variant: the destination is inspected before the source
ParticipantIterationDstFirst(rel, rmap, st) ==
    IF ~Resolves(rel, rmap) THEN st
    ELSE LET model_rel == rmap[rel.id]
             afterDst == AddParticipant(st, Truthy(model_rel, "destinationId"),
                                        Get(model_rel, "destinationId", <<>>))
         IN  AddParticipant(afterDst, Truthy(model_rel, "sourceId"),
                            Get(model_rel, "sourceId", <<>>))

\* faulty variant: a relationship without both endpoints is skipped in this loop too
ParticipantIterationSkipsPartial(rel, rmap, st) ==
    IF ~(Resolves(rel, rmap) /\ Truthy(rmap[rel.id], "sourceId")
                             /\ Truthy(rmap[rel.id], "destinationId"))
    THEN st
    ELSE AddParticipant(AddParticipant(st, TRUE, rmap[rel.id].sourceId),
                        TRUE, rmap[rel.id].destinationId)

\* lines 79-90: one iteration of the participant loop
ParticipantIteration(rel, rmap, st) ==
    IF ~Resolves(rel, rmap) THEN st
    ELSE LET model_rel == rmap[rel.id]
             afterSrc == AddParticipant(st, Truthy(model_rel, "sourceId"),
                                        Get(model_rel, "sourceId", <<>>))
         IN  AddParticipant(afterSrc, Truthy(model_rel, "destinationId"),
                            Get(model_rel, "destinationId", <<>>))

----------------------------------------------------------------------------
(* Diagram renderer (lines 92-127)                                         *)

UML == <<"U", "M", "L", "-">>
PUML == <<".", "p", "u", "m", "l">>
\* line 93 (the directory part is the same for every view)
OutputPath(key) == UML \o key \o PUML

\* faulty variant: element_id_to_name.get(p, "")
LabelOrEmpty(p, emap) == IF p \in DOMAIN emap THEN emap[p] ELSE <<>>

\* line 100
Label(p, emap) == IF p \in DOMAIN emap THEN emap[p] ELSE p

Uppercase == {"A", "B", "C", "D", "E", "F", "G", "H", "I", "J", "K", "L", "M",
              "N", "O", "P", "Q", "R", "S", "T", "U", "V", "W", "X", "Y", "Z"}
\* faulty variant: `not label[0].isupper()` in place of `label[0].islower()`
KeywordNotUpper(label) ==
    IF label # <<>> /\ label[1] \notin Uppercase THEN "actor" ELSE "participant"

\* lines 101-104
Keyword(label) ==
    IF label # <<>> /\ IsLower(label[1]) THEN "actor" ELSE "participant"

DeclarationLine(p, emap) ==
    [kind |-> "decl", keyword |-> Keyword(Label(p, emap)),
     label |-> Label(p, emap), id |-> p]

\* lines 110-119: the reference gets a message line
Renders(rel, rmap) ==
    /\ Resolves(rel, rmap)
    /\ Truthy(rmap[rel.id], "sourceId")
    /\ Truthy(rmap[rel.id], "destinationId")

\* line 121: rel.get("response", False)
IsResponse(rel) == Get(rel, "response", FALSE)

\* faulty variant: the response flag is ignored
MessageLineNoInversion(rel, rmap) ==
    [kind |-> "msg", left |-> rmap[rel.id].sourceId,
     right |-> rmap[rel.id].destinationId,
     desc |-> FlattenNewlines(Get(rel, "description", <<>>))]

\* lines 120-125
MessageLine(rel, rmap) ==
    LET src == rmap[rel.id].sourceId
        dst == rmap[rel.id].destinationId
        desc == FlattenNewlines(Get(rel, "description", <<>>))
    IN  IF IsResponse(rel)
        THEN [kind |-> "msg", left |-> dst, right |-> src, desc |-> desc]
        ELSE [kind |-> "msg", left |-> src, right |-> dst, desc |-> desc]

RECURSIVE MessageLines(_, _)
\* lines 109-125
MessageLines(refs, rmap) ==
    IF refs = <<>> THEN <<>>
    ELSE (IF Renders(Head(refs), rmap) THEN <<MessageLine(Head(refs), rmap)>> ELSE <<>>)
         \o MessageLines(Tail(refs), rmap)

\* lines 95-127: everything written to `out`
Document(name, participants, refs, emap, rmap) ==
    <<[kind |-> "start"], [kind |-> "title", name |-> name]>>
    \o [i \in 1..Len(participants) |-> DeclarationLine(participants[i], emap)]
    \o <<[kind |-> "blank"]>>
    \o MessageLines(refs, rmap)
    \o <<[kind |-> "end"]>>

----------------------------------------------------------------------------
(* Inputs: the workspace documents the run is checked on                   *)

U1 == <<"u", "1">>
S1 == <<"s", "1">>
C1 == <<"c", "1">>
K1 == <<"k", "1">>
K2 == <<"K", "2">>
X9 == <<"x", "9">>
R1 == <<"r", "1">>
R2 == <<"r", "2">>
R3 == <<"r", "3">>
R4 == <<"r", "4">>
R9 == <<"r", "9">>

Alice == <<"a", "l", "i", "c", "e">>
Orders == <<"O", "r", "d", "e", "r", "s">>
Db == <<"d", "b">>
Cache == <<"C", "a", "c", "h", "e">>
Api == <<"4", "a", "p", "i">>
Bot == <<"_", "b", "o", "t">>
Checkout == <<"C", "h", "e", "c", "k", "o", "u", "t">>

KeyA == <<"A">> \o SUFFIX
KeyB == <<"B">> \o SUFFIX
KeyC == <<"C">> \o SUFFIX
KeyShort == <<"A", "-", "S", "e", "q">>

Rel(id, src, dst) == [id |-> id, sourceId |-> src, destinationId |-> dst]
RelU1S1 == Rel(R1, U1, S1)
RelS1C1 == Rel(R2, S1, C1)
RelC1NoDst == [id |-> R3, sourceId |-> C1]
RelNoSrcX9 == Rel(R4, <<>>, X9)
\* the same id as RelU1S1, other endpoints
RelS1U1 == Rel(R1, S1, U1)
RelK1K2 == Rel(R1, K1, K2)
RelNoId == [sourceId |-> K1, destinationId |-> K2]
RelEmptyId == Rel(<<>>, K2, K1)

\* element objects: optional name, optional child lists
Named(e, name) == e @@ [name |-> name]
WithRels(e, rels) == e @@ [relationships |-> JList(rels)]
WithContainers(e, cs) == e @@ [containers |-> JList(cs)]
WithComponents(e, cs) == e @@ [components |-> JList(cs)]

\* softwareSystems: s1 { containers: c1 { components: k1 }, components: k2 };
\* people: u1
Skeleton(s1, c1, k1, k2, u1) ==
    [softwareSystems |->
         <<WithComponents(WithContainers(s1, <<WithComponents(c1, <<k1>>)>>), <<k2>>)>>,
     people |-> <<u1>>]

BaseModel ==
    Skeleton(WithRels(Named([id |-> S1], Orders), <<RelS1C1>>),
             WithRels([id |-> C1], <<RelC1NoDst>>),
             WithRels(Named([id |-> K1], Cache), <<RelNoSrcX9>>),
             Named([id |-> K2], Api),
             WithRels(Named([id |-> U1], Alice), <<RelU1S1>>))

\* description of the reference at input position i; the first holds a newline
Desc(i) == IF i = 1 THEN <<"m", "\n", Digits[i + 1]>> ELSE <<"m", Digits[i + 1]>>
Described(refs) == [i \in 1..Len(refs) |-> refs[i] @@ [description |-> Desc(i)]]

SeqsUpTo(S, n) == UNION {[1..k -> S] : k \in 0..n}

\* a view reference: id absent / empty / unknown / known; order absent /
\* "2" / "10" / unparseable; response absent / true / false
ParsedOrders == {<<>>, [order |-> <<"2">>], [order |-> <<"1", "0">>]}
BadOrder == [order |-> <<"x">>]
DroppedIds == {<<>>, [id |-> <<>>], [id |-> R9]}
ResponseFields == {<<>>, [response |-> TRUE]}
RichRefs ==
    {i @@ o : i \in DroppedIds, o \in {<<>>, BadOrder}}
    \cup {[id |-> r] @@ o @@ f : r \in {R1, R2}, o \in ParsedOrders, f \in ResponseFields}
    \cup {[id |-> R3] @@ o : o \in ParsedOrders}
    \cup {[id |-> R1] @@ BadOrder, [id |-> R1, order |-> <<"2">>, response |-> FALSE]}

View(key, refs) == [key |-> key, relationships |-> Described(refs)]

\* one qualifying view, every list of references up to MaxRefs
RichViewInputs ==
    {[model |-> BaseModel,
      views |-> [dynamicViews |-> <<Named(View(KeyA, refs), Checkout)>>]] :
        refs \in SeqsUpTo(RichRefs, MaxRefs)}

SimpleViews ==
    {Named(View(KeyA, <<[id |-> R1, order |-> <<"2">>],
                        [id |-> R2, order |-> <<"1">>, response |-> TRUE],
                        [id |-> R1, order |-> <<"1">>]>>), Checkout),
     View(KeyB, <<[id |-> R4, order |-> <<" ", "3">>], [id |-> R1]>>),
     View(KeyA, <<[id |-> R2, order |-> <<"x">>]>>),
     View(KeyA, <<[order |-> <<>>], [id |-> R1, order |-> <<"1">>]>>),
     View(KeyShort, <<[id |-> R1, order |-> <<"x">>]>>),
     [name |-> Checkout],
     [key |-> KeyC]}

\* lists of views up to MaxViews
MultiViewInputs ==
    {[model |-> BaseModel, views |-> [dynamicViews |-> vs]] :
        vs \in SeqsUpTo(SimpleViews, MaxViews)}

\* the view the model inputs are rendered through: every relationship once
AllRefsView ==
    Named(View(KeyA, <<[id |-> R4, order |-> <<"4">>], [id |-> R3, order |-> <<"3">>],
                       [id |-> R2, order |-> <<"2">>], [id |-> R1, order |-> <<"1">>]>>),
          Checkout)

NameChoices(e, name) == {e, Named(e, <<>>), Named(e, name)}

\* names present, empty or missing on every element
NamedModelInputs ==
    {[model |-> Skeleton(WithRels(s1, <<RelS1C1>>), WithRels(c1, <<RelC1NoDst>>),
                         WithRels(k1, <<RelNoSrcX9>>), k2, WithRels(u1, <<RelU1S1>>)),
      views |-> [dynamicViews |-> <<AllRefsView>>]] :
        s1 \in NameChoices([id |-> S1], Orders),
        c1 \in NameChoices([id |-> C1], Db) \cup {Named([id |-> C1], Api)},
        k1 \in {Named([id |-> K1], Cache), [name |-> Cache]},
        k2 \in {Named([id |-> K2], Api)},
        u1 \in NameChoices([id |-> U1], Alice) \cup {Named([id |-> U1], Bot)}}

\* relationships declared at every level, ids repeated
RelChoices(e) ==
    {e, WithRels(e, <<>>), WithRels(e, <<RelU1S1>>), WithRels(e, <<RelS1U1>>),
     WithRels(e, <<RelK1K2, RelS1C1>>), WithRels(e, <<RelNoId, RelEmptyId>>)}

RelModelInputs ==
    {[model |-> Skeleton(s1, c1, k1, k2, u1),
      views |-> [dynamicViews |-> <<AllRefsView>>]] :
        s1 \in RelChoices(Named([id |-> S1], Orders)),
        c1 \in RelChoices(Named([id |-> C1], Db)),
        k1 \in RelChoices(Named([id |-> K1], Cache)),
        k2 \in RelChoices(Named([id |-> K2], Api)),
        u1 \in RelChoices(Named([id |-> U1], Alice))}

\* one child-list field is JSON null
NullChoices(e) ==
    {e, [relationships |-> JNull] @@ e, [containers |-> JNull] @@ e,
     [components |-> JNull] @@ e}

MalformedModelInputs ==
    {[model |-> Skeleton(s1, c1, Named([id |-> K1], Cache), Named([id |-> K2], Api), u1),
      views |-> [dynamicViews |-> <<AllRefsView>>]] :
        s1 \in NullChoices(WithRels(Named([id |-> S1], Orders), <<RelS1C1>>)),
        c1 \in NullChoices(Named([id |-> C1], Db)),
        u1 \in NullChoices(WithRels(Named([id |-> U1], Alice), <<RelU1S1>>))}

Workspaces ==
    RichViewInputs \cup MultiViewInputs \cup NamedModelInputs \cup RelModelInputs
    \cup MalformedModelInputs

----------------------------------------------------------------------------
(* main() (lines 29-131)                                                   *)

dynamic_views == workspace.views.dynamicViews     \* line 56
view == dynamic_views[vi]                         \* line 61

Init ==
    /\ workspace \in Workspaces
    /\ pc = "elements"
    /\ element_id_to_name = EmptyMap
    /\ relationship_map = EmptyMap
    /\ vi = 1
    /\ relationships_in_order = <<>>
    /\ ri = 1
    /\ ordered_participants = <<>>
    /\ seen = {}
    /\ files = EmptyMap
    /\ writes = <<>>

\* lines 41-46; iterating a null child list raises TypeError, which ends the
\* process
BuildElementMap ==
    /\ pc = "elements"
    /\ LET r == BuildElementIndex(workspace)
       IN  /\ pc' = IF r.ok THEN "relationships" ELSE "TypeError"
           /\ element_id_to_name' = r.map
    /\ UNCHANGED <<workspace, relationship_map, vi, relationships_in_order, ri,
                   ordered_participants, seen, files, writes>>

\* lines 48-53
BuildRelationshipMap ==
    /\ pc = "relationships"
    /\ LET r == BuildRelationshipIndex(workspace)
       IN  /\ pc' = IF r.ok THEN "views" ELSE "TypeError"
           /\ relationship_map' = r.map
    /\ UNCHANGED <<workspace, element_id_to_name, vi, relationships_in_order, ri,
                   ordered_participants, seen, files, writes>>

\* lines 55-59: `if not dynamic_views: return`, else enter the loop
CheckDynamicViews ==
    /\ pc = "views"
    /\ pc' = IF dynamic_views = <<>> THEN "done" ELSE "loop"
    /\ UNCHANGED <<workspace, element_id_to_name, relationship_map, vi,
                   relationships_in_order, ri, ordered_participants, seen, files, writes>>

\* lines 61-66: `continue` on a key without the suffix
SkipView ==
    /\ pc = "loop"
    /\ vi <= Len(dynamic_views)
    /\ ~Qualifies(view)
    /\ vi' = vi + 1
    /\ UNCHANGED <<workspace, pc, element_id_to_name, relationship_map,
                   relationships_in_order, ri, ordered_participants, seen, files, writes>>

\* lines 61-77 when sorted() returns
BeginView ==
    /\ pc = "loop"
    /\ vi <= Len(dynamic_views)
    /\ Qualifies(view)
    /\ ~SortRaises(ViewRelationships(view))
    /\ ordered_participants' = <<>>
    /\ seen' = {}
    /\ relationships_in_order' = SortedByOrder(ViewRelationships(view))
    /\ ri' = 1
    /\ pc' = "participants"
    /\ UNCHANGED <<workspace, element_id_to_name, relationship_map, vi, files, writes>>

\* lines 61-77 when int() raises ValueError inside sorted(): the run ends
SortValueError ==
    /\ pc = "loop"
    /\ vi <= Len(dynamic_views)
    /\ Qualifies(view)
    /\ SortRaises(ViewRelationships(view))
    /\ ordered_participants' = <<>>
    /\ seen' = {}
    /\ pc' = "ValueError"
    /\ UNCHANGED <<workspace, element_id_to_name, relationship_map, vi,
                   relationships_in_order, ri, files, writes>>

\* lines 78-90: one iteration of `for rel in relationships_in_order`
ParticipantStep ==
    /\ pc = "participants"
    /\ ri <= Len(relationships_in_order)
    /\ LET st == ParticipantIteration(relationships_in_order[ri], relationship_map,
                                      [seen |-> seen, list |-> ordered_participants])
       IN  /\ seen' = st.seen
           /\ ordered_participants' = st.list
    /\ ri' = ri + 1
    /\ UNCHANGED <<workspace, pc, element_id_to_name, relationship_map, vi,
                   relationships_in_order, files, writes>>

\* lines 92-129: open(output_path, "w") and every write to it
WriteDocument ==
    /\ pc = "participants"
    /\ ri > Len(relationships_in_order)
    /\ LET output_path == OutputPath(ViewKey(view))
       IN  /\ files' = Put(files, output_path,
                           Document(ViewName(view), ordered_participants,
                                    relationships_in_order, element_id_to_name,
                                    relationship_map))
           /\ writes' = Append(writes, <<vi, output_path>>)
    /\ vi' = vi + 1
    /\ pc' = "loop"
    /\ UNCHANGED <<workspace, element_id_to_name, relationship_map,
                   relationships_in_order, ri, ordered_participants, seen>>

\* line 131
AllDone ==
    /\ pc = "loop"
    /\ vi > Len(dynamic_views)
    /\ pc' = "done"
    /\ UNCHANGED <<workspace, element_id_to_name, relationship_map, vi,
                   relationships_in_order, ri, ordered_participants, seen, files, writes>>

Next ==
    \/ BuildElementMap
    \/ BuildRelationshipMap
    \/ CheckDynamicViews
    \/ SkipView
    \/ BeginView
    \/ SortValueError
    \/ ParticipantStep
    \/ WriteDocument
    \/ AllDone

Spec == Init /\ [][Next]_vars

----------------------------------------------------------------------------
(* Vocabulary of the properties                                            *)

\* the participant loop of the current view has finished (line 90 left)
LoopFinished == pc = "participants" /\ ri > Len(relationships_in_order)

\* the document of view vi - 1 has just been written; the locals of main()
\* still hold that view's sorted references and participants
JustWrote == pc = "loop" /\ writes # <<>> /\ writes[Len(writes)][1] = vi - 1
WrittenView == dynamic_views[vi - 1]
WrittenDoc == files[writes[Len(writes)][2]]

LinesOf(doc, kind) == SelectSeq(doc, LAMBDA l : l.kind = kind)
Pos(list, x) == CHOOSE i \in 1..Len(list) : list[i] = x
Members(list) == {list[i] : i \in 1..Len(list)}

\* the non-empty endpoints of the relationship a reference resolves to
Endpoints(rel) ==
    IF ~Resolves(rel, relationship_map) THEN {}
    ELSE {relationship_map[rel.id][f] :
              f \in {g \in {"sourceId", "destinationId"} :
                         Truthy(relationship_map[rel.id], g)}}

\* position in `sorted` of the first resolving reference that has p as an endpoint
FirstRef(sorted, p) ==
    CHOOSE i \in 1..Len(sorted) :
        /\ p \in Endpoints(sorted[i])
        /\ \A j \in 1..(i - 1) : p \notin Endpoints(sorted[j])

\* the input position of the reference a message line was written for (every
\* reference of the inputs carries the description of its position)
InputIndexOf(line) ==
    CHOOSE i \in 1..Len(ViewRelationships(WrittenView)) :
        FlattenNewlines(Desc(i)) = line.desc

----------------------------------------------------------------------------
(* C1: when the participant loop of a qualifying view has finished, the    *)
(* participant list holds no id twice; an id whose first resolving         *)
(* reference (in sorted order) comes strictly before another id's is       *)
(* declared before it; and of two ids first met in the same relationship,  *)
(* the source comes before the destination.                                *)
C1_ParticipantOrder ==
    LoopFinished =>
        LET list == ordered_participants
            sorted == relationships_in_order
        IN  /\ \A i, j \in 1..Len(list) : list[i] = list[j] => i = j
            /\ Members(list) = UNION {Endpoints(sorted[i]) : i \in 1..Len(sorted)}
            /\ \A a, b \in Members(list) :
                   FirstRef(sorted, a) < FirstRef(sorted, b)
                       => Pos(list, a) < Pos(list, b)
            /\ \A a, b \in Members(list) :
                   LET r == relationship_map[sorted[FirstRef(sorted, a)].id]
                   IN  /\ a # b
                       /\ FirstRef(sorted, a) = FirstRef(sorted, b)
                       /\ Get(r, "sourceId", <<>>) = a
                       => Pos(list, a) < Pos(list, b)

\* three participants: one relationship brings two new ids, a later one brings
\* one new id and one id already declared
C1_Witness ==
    /\ LoopFinished
    /\ Len(ordered_participants) = 3
    /\ \E i, j \in 1..Len(relationships_in_order) :
           /\ i < j
           /\ Cardinality(Endpoints(relationships_in_order[i])) = 2
           /\ Cardinality(Endpoints(relationships_in_order[j])
                              \cap Endpoints(relationships_in_order[i])) = 1
           /\ Cardinality(Endpoints(relationships_in_order[j])) = 2

----------------------------------------------------------------------------
(* C2: the message lines of a written document are in non-decreasing       *)
(* integer value of `order`, references of equal order keep their input    *)
(* order, and there is exactly one line per reference that has a non-empty *)
(* id, resolves and has both endpoints non-empty.                          *)
C2_MessageOrder ==
    JustWrote =>
        LET refs == ViewRelationships(WrittenView)
            msgs == LinesOf(WrittenDoc, "msg")
            rendered == {i \in 1..Len(refs) : Renders(refs[i], relationship_map)}
        IN  /\ Len(msgs) = Cardinality(rendered)
            /\ {InputIndexOf(msgs[k]) : k \in 1..Len(msgs)} = rendered
            /\ \A k \in 1..(Len(msgs) - 1) :
                   LET a == InputIndexOf(msgs[k])
                       b == InputIndexOf(msgs[k + 1])
                   IN  \/ OrderKey(refs[a]) < OrderKey(refs[b])
                       \/ OrderKey(refs[a]) = OrderKey(refs[b]) /\ a < b

\* a document with the lines of two references of equal order, and one whose
\* lines are written against the input order
C2_Witness ==
    /\ JustWrote
    /\ LET refs == ViewRelationships(WrittenView)
           msgs == LinesOf(WrittenDoc, "msg")
       IN  /\ Len(msgs) >= 2
           /\ \/ InputIndexOf(msgs[1]) > InputIndexOf(msgs[2])
              \/ Len(msgs) >= 3
           /\ \E a, b \in 1..Len(refs) :
                  /\ a < b
                  /\ Renders(refs[a], relationship_map)
                  /\ Renders(refs[b], relationship_map)
                  /\ OrderKey(refs[a]) = OrderKey(refs[b])

----------------------------------------------------------------------------
(* C3: a message line of a reference whose `response` flag is true is      *)
(* written destination -> source; with the flag false or absent it is      *)
(* written source -> destination.  The flag does not touch the             *)
(* declarations: the source of a response is still declared before its     *)
(* destination when the two ids are first met in that reference.           *)
DeclaredIds(doc) ==
    LET decls == LinesOf(doc, "decl") IN [i \in 1..Len(decls) |-> decls[i].id]

FlagIsTrue(rel) == "response" \in DOMAIN rel /\ rel.response = TRUE

C3_ResponseInversion ==
    JustWrote =>
        LET refs == ViewRelationships(WrittenView)
            msgs == LinesOf(WrittenDoc, "msg")
            sorted == relationships_in_order
            declared == DeclaredIds(WrittenDoc)
        IN  /\ \A k \in 1..Len(msgs) :
                   LET ref == refs[InputIndexOf(msgs[k])]
                       S == relationship_map[ref.id].sourceId
                       D == relationship_map[ref.id].destinationId
                   IN  IF FlagIsTrue(ref)
                       THEN msgs[k].left = D /\ msgs[k].right = S
                       ELSE msgs[k].left = S /\ msgs[k].right = D
            /\ \A j \in 1..Len(sorted) :
                   (/\ FlagIsTrue(sorted[j])
                    /\ Renders(sorted[j], relationship_map)
                    /\ \A p \in Endpoints(sorted[j]) : FirstRef(sorted, p) = j)
                   => LET S == relationship_map[sorted[j].id].sourceId
                          D == relationship_map[sorted[j].id].destinationId
                      IN  /\ S \in Members(declared) /\ D \in Members(declared)
                          /\ S # D => Pos(declared, S) < Pos(declared, D)

\* a response line D -> S whose two ids are first met in its reference, next
\* to a line of a reference without the flag
C3_Witness ==
    /\ JustWrote
    /\ LET refs == ViewRelationships(WrittenView)
           msgs == LinesOf(WrittenDoc, "msg")
           sorted == relationships_in_order
       IN  /\ \E k \in 1..Len(msgs) :
                  /\ FlagIsTrue(refs[InputIndexOf(msgs[k])])
                  /\ msgs[k].left # msgs[k].right
                  /\ \E j \in 1..Len(sorted) :
                         /\ sorted[j] = refs[InputIndexOf(msgs[k])]
                         /\ \A p \in Endpoints(sorted[j]) : FirstRef(sorted, p) = j
           /\ \E k \in 1..Len(msgs) : ~FlagIsTrue(refs[InputIndexOf(msgs[k])])

----------------------------------------------------------------------------
(* C9: a reference whose relationship resolves but lacks a source or a     *)
(* destination loses only its own message line: its non-empty endpoint is  *)
(* declared, at the place its first reference has in the sorted order, and *)
(* every reference with both endpoints still has its line.                 *)
HasLine(doc, rel) ==
    \E k \in 1..Len(doc) :
        doc[k].kind = "msg" /\ doc[k].desc = FlattenNewlines(rel.description)

IsPartial(rel) == Resolves(rel, relationship_map) /\ ~Renders(rel, relationship_map)

C9_PartialEndpoints ==
    JustWrote =>
        LET sorted == relationships_in_order
            declared == DeclaredIds(WrittenDoc)
        IN  \A j \in 1..Len(sorted) :
                /\ IsPartial(sorted[j]) =>
                       /\ ~HasLine(WrittenDoc, sorted[j])
                       /\ \A p \in Endpoints(sorted[j]) :
                              /\ p \in Members(declared)
                              /\ \A q \in Members(declared) :
                                     /\ FirstRef(sorted, q) < FirstRef(sorted, p)
                                            => Pos(declared, q) < Pos(declared, p)
                                     /\ FirstRef(sorted, p) < FirstRef(sorted, q)
                                            => Pos(declared, p) < Pos(declared, q)
                /\ Renders(sorted[j], relationship_map) => HasLine(WrittenDoc, sorted[j])

\* a reference without destination brings its source into the declarations,
\* ahead of the ids of a later reference whose line is written
C9_Witness ==
    /\ JustWrote
    /\ LET sorted == relationships_in_order
           declared == DeclaredIds(WrittenDoc)
       IN  \E j, k \in 1..Len(sorted) :
               /\ j < k
               /\ IsPartial(sorted[j])
               /\ \E p \in Endpoints(sorted[j]) : Pos(declared, p) = 1
               /\ Renders(sorted[k], relationship_map)
               /\ HasLine(WrittenDoc, sorted[k])
               /\ Len(declared) >= 2

----------------------------------------------------------------------------
(* C10: the label of a declaration is the name the element map records for *)
(* the id, and the raw id when it records none: so for an id of no element *)
(* and for an element whose name is empty or missing.                      *)

\* the elements of the workspace, in traversal order
SkeletonElements(ws) ==
    LET s1 == ws.model.softwareSystems[1]
        c1 == IterItems(s1, "containers")[1]
    IN  <<s1, c1, IterItems(c1, "components")[1], IterItems(s1, "components")[1],
          ws.model.people[1]>>

NamedElementsWithId(ws, p) ==
    {e \in Members(SkeletonElements(ws)) :
         Truthy(e, "id") /\ e.id = p /\ Truthy(e, "name")}

C10_LabelFallback ==
    JustWrote =>
        LET decls == LinesOf(WrittenDoc, "decl")
        IN  \A k \in 1..Len(decls) :
                /\ decls[k].label =
                       IF decls[k].id \in DOMAIN element_id_to_name
                       THEN element_id_to_name[decls[k].id]
                       ELSE decls[k].id
                /\ \A e \in NamedElementsWithId(workspace, decls[k].id) :
                       decls[k].label = e.name
                /\ NamedElementsWithId(workspace, decls[k].id) = {}
                       => decls[k].label = decls[k].id

\* one document declares an id of no element, an element without a name and
\* an element with a name
C10_Witness ==
    /\ JustWrote
    /\ LET decls == LinesOf(WrittenDoc, "decl")
           elements == Members(SkeletonElements(workspace))
       IN  /\ \E k \in 1..Len(decls) :
                  /\ \A e \in elements : ~(Truthy(e, "id") /\ e.id = decls[k].id)
                  /\ decls[k].label = decls[k].id
           /\ \E k \in 1..Len(decls) :
                  /\ \E e \in elements :
                         Truthy(e, "id") /\ e.id = decls[k].id /\ ~Truthy(e, "name")
                  /\ decls[k].label = decls[k].id
           /\ \E k \in 1..Len(decls) : decls[k].label # decls[k].id

----------------------------------------------------------------------------
(* Vocabulary of the index and whole-run properties                        *)

\* both maps are built (line 53 passed)
IndexBuilt == pc \notin {"elements", "relationships", "TypeError"}

\* every relationship object of the model, in depth-first traversal order:
\* software systems before people, an element's own relationships before its
\* containers', containers before components
RECURSIVE Concat(_)
Concat(lists) == IF lists = <<>> THEN <<>> ELSE Head(lists) \o Concat(Tail(lists))
DeclaredRelationships(ws) ==
    LET es == SkeletonElements(ws)
    IN  Concat([i \in 1..Len(es) |-> IterItems(es[i], "relationships")])

WritesOf(i) == {k \in 1..Len(writes) : writes[k][1] = i}

----------------------------------------------------------------------------
(* C4 (as claimed): over one run, a view whose key does not end in         *)
(* -Sequence produces no document, every view whose key does produces      *)
(* exactly one, whatever its references and the other views hold, and the  *)
(* writes of different views go to different files.                        *)
C4_OneDocumentPerSequenceView ==
    pc \in {"done", "ValueError"} =>
        /\ \A i \in 1..Len(dynamic_views) :
               Cardinality(WritesOf(i)) = IF Qualifies(dynamic_views[i]) THEN 1 ELSE 0
        /\ \A a, b \in 1..Len(writes) :
               writes[a][1] # writes[b][1] => writes[a][2] # writes[b][2]

----------------------------------------------------------------------------
(* C5 (as claimed): after the index build the element map holds id -> name *)
(* for every element with a non-empty id and name at any depth, the        *)
(* relationship map holds every relationship with a non-empty id, and a    *)
(* missing or malformed child list raises no error.                        *)
C5_IndexCoversEveryDepth ==
    /\ pc # "TypeError"
    /\ IndexBuilt =>
           /\ \A e \in Members(SkeletonElements(workspace)) :
                  Truthy(e, "id") /\ Truthy(e, "name")
                      => /\ e.id \in DOMAIN element_id_to_name
                         /\ element_id_to_name[e.id] = e.name
           /\ \A r \in Members(DeclaredRelationships(workspace)) :
                  Truthy(r, "id") => r.id \in DOMAIN relationship_map

----------------------------------------------------------------------------
(* C6 (as claimed): of the relationships that carry one id, the map keeps  *)
(* the one met first in depth-first traversal order.                       *)
C6_FirstOccurrenceWins ==
    IndexBuilt =>
        LET all == DeclaredRelationships(workspace)
        IN  \A i \in 1..Len(all) :
                (/\ Truthy(all[i], "id")
                 /\ \A j \in 1..(i - 1) : ~(Truthy(all[j], "id") /\ all[j].id = all[i].id))
                => relationship_map[all[i].id] = all[i]

(* C6 (amended): of the relationships that carry one id, the map keeps the *)
(* one met last in depth-first traversal order; the earlier ones are       *)
(* overwritten, ids that are empty or missing are not recorded, and the    *)
(* index build raises no error.                                            *)
C6_LastOccurrenceWins ==
    /\ workspace \in RelModelInputs => pc # "TypeError"
    /\ IndexBuilt =>
           LET all == DeclaredRelationships(workspace)
           IN  /\ DOMAIN relationship_map =
                      {all[i].id : i \in {k \in 1..Len(all) : Truthy(all[k], "id")}}
               /\ \A i \in 1..Len(all) :
                      (/\ Truthy(all[i], "id")
                       /\ \A j \in (i + 1)..Len(all) :
                              ~(Truthy(all[j], "id") /\ all[j].id = all[i].id))
                      => relationship_map[all[i].id] = all[i]

\* one id is carried by a relationship of the software system and, with other
\* endpoints, by one of the person; the map holds the person's
C6_Witness ==
    /\ IndexBuilt
    /\ LET all == DeclaredRelationships(workspace)
           own == IterItems(workspace.model.softwareSystems[1], "relationships")
           last == IterItems(workspace.model.people[1], "relationships")
       IN  \E r \in Members(own), q \in Members(last) :
               /\ Truthy(r, "id") /\ Truthy(q, "id") /\ r.id = q.id /\ r # q
               /\ relationship_map[r.id] = q

----------------------------------------------------------------------------
(* C7 (as claimed): a reference whose `order` is absent or does not parse  *)
(* as an integer sorts as order 0, and the run goes on without error: the  *)
(* view's document is written and the later views are processed.           *)
EffectiveOrder(r) ==
    IF "order" \notin DOMAIN r \/ IntRaises(r.order) THEN 0 ELSE IntValue(r.order)

C7_BadOrderSortsAsZero ==
    /\ pc # "ValueError"
    /\ pc = "done" =>
           \A i \in 1..Len(dynamic_views) :
               Qualifies(dynamic_views[i]) => WritesOf(i) # {}
    /\ JustWrote =>
           LET refs == ViewRelationships(WrittenView)
               msgs == LinesOf(WrittenDoc, "msg")
           IN  \A k \in 1..(Len(msgs) - 1) :
                   LET a == InputIndexOf(msgs[k])
                       b == InputIndexOf(msgs[k + 1])
                   IN  \/ EffectiveOrder(refs[a]) < EffectiveOrder(refs[b])
                       \/ EffectiveOrder(refs[a]) = EffectiveOrder(refs[b]) /\ a < b

----------------------------------------------------------------------------
(* C8 (as claimed): a reference whose id is empty, missing or unknown to   *)
(* the relationship map is dropped silently: it raises no error, and the   *)
(* declarations and message lines are those of the view without it.        *)
RECURSIVE DeriveParticipants(_, _)
DeriveParticipants(sorted, st) ==
    IF sorted = <<>> THEN st.list
    ELSE DeriveParticipants(Tail(sorted),
                            ParticipantIteration(Head(sorted), relationship_map, st))

KeptReferences(v) ==
    SelectSeq(ViewRelationships(v), LAMBDA r : Resolves(r, relationship_map))

C8_DroppedReferenceIsInert ==
    /\ pc = "ValueError" => SortRaises(KeptReferences(view))
    /\ JustWrote =>
           LET kept == SortedByOrder(KeptReferences(WrittenView))
           IN  /\ DeclaredIds(WrittenDoc)
                      = DeriveParticipants(kept, [seen |-> {}, list |-> <<>>])
               /\ LinesOf(WrittenDoc, "msg") = MessageLines(kept, relationship_map)

----------------------------------------------------------------------------
(* C11: every participant id has exactly one declaration line, and the     *)
(* keyword of the line is `actor` exactly when the first character of its  *)
(* label is a lowercase letter; a label that starts with a digit, a symbol *)
(* or an uppercase letter is declared with `participant`.                  *)
C11_ActorParticipantSplit ==
    JustWrote =>
        LET decls == LinesOf(WrittenDoc, "decl")
        IN  /\ DeclaredIds(WrittenDoc) = ordered_participants
            /\ \A p \in Members(ordered_participants) :
                   Cardinality({k \in 1..Len(decls) : decls[k].id = p}) = 1
            /\ \A k \in 1..Len(decls) :
                   /\ decls[k].keyword \in {"actor", "participant"}
                   /\ decls[k].keyword = "actor"
                          <=> (decls[k].label # <<>> /\ decls[k].label[1] \in Lowercase)

\* one document declares an actor and three participants whose labels start
\* with an uppercase letter, a digit and a symbol
C11_Witness ==
    /\ JustWrote
    /\ LET decls == LinesOf(WrittenDoc, "decl")
       IN  /\ \E k \in 1..Len(decls) :
                  decls[k].keyword = "actor" /\ decls[k].label[1] \in Lowercase
           /\ \E k \in 1..Len(decls) :
                  decls[k].keyword = "participant" /\ decls[k].label[1] \in Uppercase
           /\ \E k \in 1..Len(decls) :
                  decls[k].keyword = "participant" /\ IsDigit(decls[k].label[1])
           /\ \E k \in 1..Len(decls) :
                  decls[k].keyword = "participant" /\ decls[k].label[1] = "_"

----------------------------------------------------------------------------
(* C12: in every written document, each id that is the left or right end   *)
(* of a message line has exactly one declaration line, and every           *)
(* declaration line comes before the first message line.  A declared id    *)
(* need not be in any message line.                                        *)
C12_MessageEndsDeclared ==
    JustWrote =>
        LET doc == WrittenDoc
            declsOf(p) == {i \in 1..Len(doc) : doc[i].kind = "decl" /\ doc[i].id = p}
        IN  /\ \A j \in 1..Len(doc) :
                   doc[j].kind = "msg"
                       => /\ Cardinality(declsOf(doc[j].left)) = 1
                          /\ Cardinality(declsOf(doc[j].right)) = 1
            /\ \A i, j \in 1..Len(doc) :
                   doc[i].kind = "decl" /\ doc[j].kind = "msg" => i < j

\* a document in which one id is an end of two message lines, and a declared
\* id is named by no message line
C12_Witness ==
    /\ JustWrote
    /\ LET msgs == LinesOf(WrittenDoc, "msg")
           declared == DeclaredIds(WrittenDoc)
       IN  /\ \E a, b \in 1..Len(msgs) :
                  /\ a # b
                  /\ msgs[a].left # msgs[a].right
                  /\ {msgs[a].left, msgs[a].right} \cap {msgs[b].left, msgs[b].right} # {}
           /\ \E p \in Members(declared) :
                  \A k \in 1..Len(msgs) : p \notin {msgs[k].left, msgs[k].right}

====
